---- MODULE Spec2Model ----
(***************************************************************************)
(* Model of the Irrlicht colour converter (src/irr/src/CColorConverter.cpp)*)
(* and of the intrusive reference counter                                  *)
(* (src/irr/include/IReferenceCounted.h).                                  *)
(*                                                                         *)
(* Memory is modelled as sequences of bytes (0..255); buffer offset k is   *)
(* sequence index k+1.  16-bit and 32-bit elements are little-endian, the  *)
(* build without __BIG_ENDIAN__.                                           *)
(***************************************************************************)
EXTENDS Integers, Sequences, FiniteSets, TLC

VARIABLES
    call,       \* the operation that has run ("none" before any call)
    \* -- pixel-stream codecs and the format dispatcher
    sF,         \* sourceFormat
    dF,         \* destFormat
    sN,         \* sample count
    sP,         \* source buffer
    dP,         \* destination buffer
    dP0,        \* the destination buffer as it was before the call
    codec,      \* name of the pixel-stream codec that ran ("none": no codec)
    ret,        \* canConvertFormat's return value
    rP,         \* destination buffer of a second codec call that reads dP
    \* -- scanline routines
    routine,    \* the scanline routine the arguments are laid out for
    nullPtr,    \* which buffer argument is a null pointer: "none", "in" or "out"
    width,
    height,
    linepad,
    flip,
    bgr,
    palette,    \* 1024 bytes (256 entries of 4), or <<>> for a null palette
    inp,        \* the memory at `in`
    out,        \* the memory at `out`: height rows of width destination pixels
    rowStart,   \* byte offset from `in` at which the read of each row started
    srcRead,    \* byte offsets from `in` that were read
    dstWritten, \* byte offsets from `out` that were written
    palRead,    \* byte offsets from `palette` that were read
    \* -- IReferenceCounted
    ReferenceCounter,
    alive,      \* the object has been constructed and not deleted
    grabs,      \* number of grab() calls so far
    drops,      \* number of drop() calls so far
    destroyed,  \* number of times the object was deleted
    dropRet,    \* return value of the last drop()
    \* -- convert16bitToA8R8G8B8andResize
    newWidth,
    newHeight,
    currentWidth,
    currentHeight,
    rin,        \* the source image: currentWidth * currentHeight 16-bit pixels
    rout,       \* the destination image: newWidth * newHeight 4-byte pixels
    sampled,    \* per destination index, the source index last read for it
    written     \* per destination index, how many times it was written

streamVars == <<sF, dF, sN, sP, dP, dP0, codec, ret, rP>>
scanVars == <<routine, nullPtr, width, height, linepad, flip, bgr, palette, inp, out,
              rowStart, srcRead, dstWritten, palRead>>
refVars == <<ReferenceCounter, alive, grabs, drops, destroyed, dropRet>>
resizeVars == <<newWidth, newHeight, currentWidth, currentHeight, rin, rout,
                sampled, written>>
vars == <<call, streamVars, scanVars, refVars, resizeVars>>

(***************************************************************************)
(* Bounds of the model.                                                    *)
(***************************************************************************)
MaxSamples == 2
MaxWidth == 2
MaxHeight == 2
MaxLinepad == 2
MaxGrabs == 12
MaxNewWidth == 2
MaxNewHeight == 12
MaxCurrentWidth == 2
MaxCurrentHeight == 4

(***************************************************************************)
(* Bit arithmetic on naturals, as C's operators on unsigned values.        *)
(***************************************************************************)
RECURSIVE Pow2(_)
Pow2(n) == IF n = 0 THEN 1 ELSE 2 * Pow2(n - 1)

Shl(v, n) == v * Pow2(n)
Shr(v, n) == v \div Pow2(n)

RECURSIVE And(_, _)
And(a, b) ==
    IF a = 0 \/ b = 0 THEN 0
    ELSE (IF a % 2 = 1 /\ b % 2 = 1 THEN 1 ELSE 0) + 2 * And(a \div 2, b \div 2)

RECURSIVE Or(_, _)
Or(a, b) ==
    IF a = 0 THEN b
    ELSE IF b = 0 THEN a
    ELSE (IF a % 2 = 1 \/ b % 2 = 1 THEN 1 ELSE 0) + 2 * Or(a \div 2, b \div 2)

\* Truncation on a store to u8 / u16.
ToU8(v) == v % 256
ToU16(v) == v % 65536

\* A little-endian u16 read from two bytes, and its store.
LoadU16(b) == b[1] + 256 * b[2]
StoreU16(v) == <<ToU16(v) % 256, ToU16(v) \div 256>>

(***************************************************************************)
(* Colour formats.                                                         *)
(***************************************************************************)
ConvertibleFormats == {"A1R5G5B5", "R5G6B5", "A8R8G8B8", "R8G8B8"}
OtherFormats == {"Indexed8", "BGR888"}
ECOLOR_FORMAT == ConvertibleFormats \cup OtherFormats

BytesPerPixel(f) ==
    CASE f = "Indexed8" -> 1
      [] f = "A1R5G5B5" -> 2
      [] f = "R5G6B5" -> 2
      [] f = "R8G8B8" -> 3
      [] f = "BGR888" -> 3
      [] f = "A8R8G8B8" -> 4

(***************************************************************************)
(* Pixel-stream codecs: sN tightly packed pixels from sP to dP.            *)
(***************************************************************************)
\* void *memcpy(dest, src, n)
memcpy(dest, src, n) ==
    [i \in 1..Len(dest) |-> IF i <= n THEN src[i] ELSE dest[i]]

\* The sb bytes of source pixel x: what sB points at after x steps "sB += sb".
SrcPixel(src, x, sb) == SubSeq(src, x * sb + 1, x * sb + sb)

\* The loop "for (x = 0; x < sN; ++x) { <store one pixel>; sB += ..; dB += db; }":
\* px[x] are the db bytes stored at dB for pixel x.
StreamLoop(n, dest, db, px) ==
    [i \in 1..Len(dest) |->
        IF i <= n * db
        THEN px[(i - 1) \div db][((i - 1) % db) + 1]
        ELSE dest[i]]

\* Inline pixel helpers of SColor.h.
A1R5G5B5toA8R8G8B8(color) ==
    <<Shl(And(color, \H001F), 3),
      Shl(And(Shr(color, 5), \H1F), 3),
      Shl(And(Shr(color, 10), \H1F), 3),
      IF And(color, \H8000) # 0 THEN \HFF ELSE 0>>

A1R5G5B5toR5G6B5(color) ==
    Or(Shl(And(color, \H7FE0), 1), And(color, \H001F))

A8R8G8B8toA1R5G5B5(c) ==
    Or(Or(Shl(Shr(c[4], 7), 15), Shl(Shr(c[3], 3), 10)),
       Or(Shl(Shr(c[2], 3), 5), Shr(c[1], 3)))

R5G6B5toA8R8G8B8(color) ==
    <<Shl(And(color, \H001F), 3),
      Shl(And(Shr(color, 5), \H3F), 2),
      Shl(And(Shr(color, 11), \H1F), 3),
      \HFF>>

R5G6B5toA1R5G5B5(color) ==
    Or(\H8000, Or(Shr(And(color, \HFFC0), 1), And(color, \H001F)))

px_A1R5G5B5toR8G8B8(s) ==
    LET sB == LoadU16(s)
        dB2 == ToU8(Shr(And(sB, \H7c00), 7))
        dB1 == ToU8(Shr(And(sB, \H03e0), 2))
        dB0 == ToU8(Shl(And(sB, \H1f), 3))
    IN  <<dB0, dB1, dB2>>

convert_A1R5G5B5toR8G8B8(src, n, dest) ==
    StreamLoop(n, dest, 3,
        [x \in 0..(n - 1) |-> px_A1R5G5B5toR8G8B8(SrcPixel(src, x, 2))])

px_A1R5G5B5toA8R8G8B8(s) == A1R5G5B5toA8R8G8B8(LoadU16(s))

convert_A1R5G5B5toA8R8G8B8(src, n, dest) ==
    StreamLoop(n, dest, 4,
        [x \in 0..(n - 1) |-> px_A1R5G5B5toA8R8G8B8(SrcPixel(src, x, 2))])

convert_A1R5G5B5toA1R5G5B5(src, n, dest) == memcpy(dest, src, n * 2)

px_A1R5G5B5toR5G6B5(s) == StoreU16(A1R5G5B5toR5G6B5(LoadU16(s)))

convert_A1R5G5B5toR5G6B5(src, n, dest) ==
    StreamLoop(n, dest, 2,
        [x \in 0..(n - 1) |-> px_A1R5G5B5toR5G6B5(SrcPixel(src, x, 2))])

px_A8R8G8B8toR8G8B8(sB) == <<sB[3], sB[2], sB[1]>>

convert_A8R8G8B8toR8G8B8(src, n, dest) ==
    StreamLoop(n, dest, 3,
        [x \in 0..(n - 1) |-> px_A8R8G8B8toR8G8B8(SrcPixel(src, x, 4))])

convert_A8R8G8B8toA8R8G8B8(src, n, dest) == memcpy(dest, src, n * 4)

px_A8R8G8B8toA1R5G5B5(s) == StoreU16(A8R8G8B8toA1R5G5B5(s))

convert_A8R8G8B8toA1R5G5B5(src, n, dest) ==
    StreamLoop(n, dest, 2,
        [x \in 0..(n - 1) |-> px_A8R8G8B8toA1R5G5B5(SrcPixel(src, x, 4))])

px_A8R8G8B8toA1B5G5R5(sB) ==
    LET r == Shr(sB[1], 3)
        g == Shr(sB[2], 3)
        b == Shr(sB[3], 3)
        a == Shr(sB[4], 3)
    IN  StoreU16(Or(Or(Shl(a, 15), Shl(r, 10)), Or(Shl(g, 5), b)))

convert_A8R8G8B8toA1B5G5R5(src, n, dest) ==
    StreamLoop(n, dest, 2,
        [x \in 0..(n - 1) |-> px_A8R8G8B8toA1B5G5R5(SrcPixel(src, x, 4))])

px_A8R8G8B8toR5G6B5(sB) ==
    LET r == Shr(sB[3], 3)
        g == Shr(sB[2], 2)
        b == Shr(sB[1], 3)
    IN  StoreU16(Or(Or(Shl(r, 11), Shl(g, 5)), b))

convert_A8R8G8B8toR5G6B5(src, n, dest) ==
    StreamLoop(n, dest, 2,
        [x \in 0..(n - 1) |-> px_A8R8G8B8toR5G6B5(SrcPixel(src, x, 4))])

convert_R8G8B8toR8G8B8(src, n, dest) == memcpy(dest, src, n * 3)

\* *dB = 0xff000000 | (sB[0] << 16) | (sB[1] << 8) | sB[2], stored little-endian.
px_R8G8B8toA8R8G8B8(sB) == <<sB[3], sB[2], sB[1], \Hff>>

convert_R8G8B8toA8R8G8B8(src, n, dest) ==
    StreamLoop(n, dest, 4,
        [x \in 0..(n - 1) |-> px_R8G8B8toA8R8G8B8(SrcPixel(src, x, 3))])

px_R8G8B8toA1R5G5B5(sB) ==
    LET r == Shr(sB[1], 3)
        g == Shr(sB[2], 3)
        b == Shr(sB[3], 3)
    IN  StoreU16(Or(Or(\H8000, Shl(r, 10)), Or(Shl(g, 5), b)))

convert_R8G8B8toA1R5G5B5(src, n, dest) ==
    StreamLoop(n, dest, 2,
        [x \in 0..(n - 1) |-> px_R8G8B8toA1R5G5B5(SrcPixel(src, x, 3))])

px_R8G8B8toR5G6B5_green5(sB) ==
    LET r == Shr(sB[1], 3)
        g == Shr(sB[2], 3)
        b == Shr(sB[3], 3)
    IN  StoreU16(Or(Or(Shl(r, 11), Shl(g, 5)), b))

px_R8G8B8toR5G6B5(sB) ==
    LET r == Shr(sB[1], 3)
        g == Shr(sB[2], 2)
        b == Shr(sB[3], 3)
    IN  StoreU16(Or(Or(Shl(r, 11), Shl(g, 5)), b))

convert_R8G8B8toR5G6B5(src, n, dest) ==
    StreamLoop(n, dest, 2,
        [x \in 0..(n - 1) |-> px_R8G8B8toR5G6B5(SrcPixel(src, x, 3))])

convert_R5G6B5toR5G6B5(src, n, dest) == memcpy(dest, src, n * 2)

px_R5G6B5toR8G8B8(s) ==
    LET sB == LoadU16(s)
        dB0 == ToU8(Shr(And(sB, \Hf800), 8))
        dB1 == ToU8(Shr(And(sB, \H07e0), 3))
        dB2 == ToU8(Shl(And(sB, \H001f), 3))
    IN  <<dB0, dB1, dB2>>

convert_R5G6B5toR8G8B8(src, n, dest) ==
    StreamLoop(n, dest, 3,
        [x \in 0..(n - 1) |-> px_R5G6B5toR8G8B8(SrcPixel(src, x, 2))])

px_R5G6B5toA8R8G8B8(s) == R5G6B5toA8R8G8B8(LoadU16(s))

convert_R5G6B5toA8R8G8B8(src, n, dest) ==
    StreamLoop(n, dest, 4,
        [x \in 0..(n - 1) |-> px_R5G6B5toA8R8G8B8(SrcPixel(src, x, 2))])

px_R5G6B5toA1R5G5B5(s) == StoreU16(R5G6B5toA1R5G5B5(LoadU16(s)))

convert_R5G6B5toA1R5G5B5(src, n, dest) ==
    StreamLoop(n, dest, 2,
        [x \in 0..(n - 1) |-> px_R5G6B5toA1R5G5B5(SrcPixel(src, x, 2))])

(***************************************************************************)
(* The format catalogue and the dispatcher.                                *)
(***************************************************************************)
canConvertFormat_noR8G8B8(sourceFormat, destFormat) ==
    CASE sourceFormat = "A1R5G5B5" ->
            destFormat \in {"A1R5G5B5", "R5G6B5", "A8R8G8B8", "R8G8B8"}
      [] sourceFormat = "R5G6B5" ->
            destFormat \in {"A1R5G5B5", "R5G6B5", "A8R8G8B8"}
      [] sourceFormat = "A8R8G8B8" ->
            destFormat \in {"A1R5G5B5", "R5G6B5", "A8R8G8B8", "R8G8B8"}
      [] sourceFormat = "R8G8B8" ->
            destFormat \in {"A1R5G5B5", "R5G6B5", "A8R8G8B8", "R8G8B8"}
      [] OTHER -> FALSE

canConvertFormat(sourceFormat, destFormat) ==
    CASE sourceFormat = "A1R5G5B5" ->
            (CASE destFormat = "A1R5G5B5" -> TRUE
               [] destFormat = "R5G6B5" -> TRUE
               [] destFormat = "A8R8G8B8" -> TRUE
               [] destFormat = "R8G8B8" -> TRUE
               [] OTHER -> FALSE)
      [] sourceFormat = "R5G6B5" ->
            (CASE destFormat = "A1R5G5B5" -> TRUE
               [] destFormat = "R5G6B5" -> TRUE
               [] destFormat = "A8R8G8B8" -> TRUE
               [] destFormat = "R8G8B8" -> TRUE
               [] OTHER -> FALSE)
      [] sourceFormat = "A8R8G8B8" ->
            (CASE destFormat = "A1R5G5B5" -> TRUE
               [] destFormat = "R5G6B5" -> TRUE
               [] destFormat = "A8R8G8B8" -> TRUE
               [] destFormat = "R8G8B8" -> TRUE
               [] OTHER -> FALSE)
      [] sourceFormat = "R8G8B8" ->
            (CASE destFormat = "A1R5G5B5" -> TRUE
               [] destFormat = "R5G6B5" -> TRUE
               [] destFormat = "A8R8G8B8" -> TRUE
               [] destFormat = "R8G8B8" -> TRUE
               [] OTHER -> FALSE)
      [] OTHER -> FALSE

\* The codec a call ran and the destination buffer it left.
Ran(name, dest) == [codec |-> name, dP |-> dest]

convert_viaFormat_swapped(src, sf, n, dest, df) ==
    CASE sf = "A1R5G5B5" /\ df = "A1R5G5B5" ->
            Ran("convert_A1R5G5B5toA1R5G5B5", convert_A1R5G5B5toA1R5G5B5(src, n, dest))
      [] sf = "A1R5G5B5" /\ df = "R5G6B5" ->
            Ran("convert_A1R5G5B5toR5G6B5", convert_A1R5G5B5toR5G6B5(src, n, dest))
      [] sf = "A1R5G5B5" /\ df = "A8R8G8B8" ->
            Ran("convert_A1R5G5B5toA8R8G8B8", convert_A1R5G5B5toA8R8G8B8(src, n, dest))
      [] sf = "A1R5G5B5" /\ df = "R8G8B8" ->
            Ran("convert_A1R5G5B5toR8G8B8", convert_A1R5G5B5toR8G8B8(src, n, dest))
      [] sf = "R5G6B5" /\ df = "A1R5G5B5" ->
            Ran("convert_R5G6B5toA1R5G5B5", convert_R5G6B5toA1R5G5B5(src, n, dest))
      [] sf = "R5G6B5" /\ df = "R5G6B5" ->
            Ran("convert_R5G6B5toR5G6B5", convert_R5G6B5toR5G6B5(src, n, dest))
      [] sf = "R5G6B5" /\ df = "A8R8G8B8" ->
            Ran("convert_R5G6B5toA8R8G8B8", convert_R5G6B5toA8R8G8B8(src, n, dest))
      [] sf = "R5G6B5" /\ df = "R8G8B8" ->
            Ran("convert_R5G6B5toR8G8B8", convert_R5G6B5toR8G8B8(src, n, dest))
      [] sf = "A8R8G8B8" /\ df = "A1R5G5B5" ->
            Ran("convert_A8R8G8B8toR5G6B5", convert_A8R8G8B8toR5G6B5(src, n, dest))
      [] sf = "A8R8G8B8" /\ df = "R5G6B5" ->
            Ran("convert_A8R8G8B8toA1R5G5B5", convert_A8R8G8B8toA1R5G5B5(src, n, dest))
      [] sf = "A8R8G8B8" /\ df = "A8R8G8B8" ->
            Ran("convert_A8R8G8B8toA8R8G8B8", convert_A8R8G8B8toA8R8G8B8(src, n, dest))
      [] sf = "A8R8G8B8" /\ df = "R8G8B8" ->
            Ran("convert_A8R8G8B8toR8G8B8", convert_A8R8G8B8toR8G8B8(src, n, dest))
      [] sf = "R8G8B8" /\ df = "A1R5G5B5" ->
            Ran("convert_R8G8B8toA1R5G5B5", convert_R8G8B8toA1R5G5B5(src, n, dest))
      [] sf = "R8G8B8" /\ df = "R5G6B5" ->
            Ran("convert_R8G8B8toR5G6B5", convert_R8G8B8toR5G6B5(src, n, dest))
      [] sf = "R8G8B8" /\ df = "A8R8G8B8" ->
            Ran("convert_R8G8B8toA8R8G8B8", convert_R8G8B8toA8R8G8B8(src, n, dest))
      [] sf = "R8G8B8" /\ df = "R8G8B8" ->
            Ran("convert_R8G8B8toR8G8B8", convert_R8G8B8toR8G8B8(src, n, dest))
      [] OTHER -> Ran("none", dest)

convert_viaFormat(src, sf, n, dest, df) ==
    CASE sf = "A1R5G5B5" ->
            (CASE df = "A1R5G5B5" ->
                    Ran("convert_A1R5G5B5toA1R5G5B5", convert_A1R5G5B5toA1R5G5B5(src, n, dest))
               [] df = "R5G6B5" ->
                    Ran("convert_A1R5G5B5toR5G6B5", convert_A1R5G5B5toR5G6B5(src, n, dest))
               [] df = "A8R8G8B8" ->
                    Ran("convert_A1R5G5B5toA8R8G8B8", convert_A1R5G5B5toA8R8G8B8(src, n, dest))
               [] df = "R8G8B8" ->
                    Ran("convert_A1R5G5B5toR8G8B8", convert_A1R5G5B5toR8G8B8(src, n, dest))
               [] OTHER -> Ran("none", dest))
      [] sf = "R5G6B5" ->
            (CASE df = "A1R5G5B5" ->
                    Ran("convert_R5G6B5toA1R5G5B5", convert_R5G6B5toA1R5G5B5(src, n, dest))
               [] df = "R5G6B5" ->
                    Ran("convert_R5G6B5toR5G6B5", convert_R5G6B5toR5G6B5(src, n, dest))
               [] df = "A8R8G8B8" ->
                    Ran("convert_R5G6B5toA8R8G8B8", convert_R5G6B5toA8R8G8B8(src, n, dest))
               [] df = "R8G8B8" ->
                    Ran("convert_R5G6B5toR8G8B8", convert_R5G6B5toR8G8B8(src, n, dest))
               [] OTHER -> Ran("none", dest))
      [] sf = "A8R8G8B8" ->
            (CASE df = "A1R5G5B5" ->
                    Ran("convert_A8R8G8B8toA1R5G5B5", convert_A8R8G8B8toA1R5G5B5(src, n, dest))
               [] df = "R5G6B5" ->
                    Ran("convert_A8R8G8B8toR5G6B5", convert_A8R8G8B8toR5G6B5(src, n, dest))
               [] df = "A8R8G8B8" ->
                    Ran("convert_A8R8G8B8toA8R8G8B8", convert_A8R8G8B8toA8R8G8B8(src, n, dest))
               [] df = "R8G8B8" ->
                    Ran("convert_A8R8G8B8toR8G8B8", convert_A8R8G8B8toR8G8B8(src, n, dest))
               [] OTHER -> Ran("none", dest))
      [] sf = "R8G8B8" ->
            (CASE df = "A1R5G5B5" ->
                    Ran("convert_R8G8B8toA1R5G5B5", convert_R8G8B8toA1R5G5B5(src, n, dest))
               [] df = "R5G6B5" ->
                    Ran("convert_R8G8B8toR5G6B5", convert_R8G8B8toR5G6B5(src, n, dest))
               [] df = "A8R8G8B8" ->
                    Ran("convert_R8G8B8toA8R8G8B8", convert_R8G8B8toA8R8G8B8(src, n, dest))
               [] df = "R8G8B8" ->
                    Ran("convert_R8G8B8toR8G8B8", convert_R8G8B8toR8G8B8(src, n, dest))
               [] OTHER -> Ran("none", dest))
      [] OTHER -> Ran("none", dest)

(***************************************************************************)
(* Scanline routines.  A routine's result is the record                    *)
(*   out        the destination memory,                                    *)
(*   ip, op     the `in` and `out` pointers, counted in their elements,    *)
(*   rowStart, srcRead, dstWritten, palRead   what it read and wrote.      *)
(***************************************************************************)
\* The bytes `bytes` stored at byte offset off of mem.
Poke(mem, off, bytes) ==
    [i \in DOMAIN mem |->
        IF i - 1 >= off /\ i - 1 < off + Len(bytes) THEN bytes[i - off] ELSE mem[i]]

\* The n byte offsets from off on.
Span(off, n) == off..(off + n - 1)

\* The state on entry: nothing read or written, both pointers at their buffers.
Entry(dest) ==
    [out |-> dest, ip |-> 0, op |-> 0, rowStart |-> <<>>,
     srcRead |-> {}, dstWritten |-> {}, palRead |-> {}]

\* "if (flip) out -= lineWidth" before the row is written.
RowDest_noStepBack(flp, op, lineWidth) == op

RowDest(flp, op, lineWidth) == IF flp THEN op - lineWidth ELSE op

\* "if (!flip) out += lineWidth" after the row is written.
RowNext(flp, op, lineWidth) == IF flp THEN op ELSE op + lineWidth

\* The three bytes stored for source byte c with a palette (little-endian build).
Palette24_sameOrder(pal, c) ==
    <<pal[Shl(c, 2) + 0 + 1], pal[Shl(c, 2) + 1 + 1], pal[Shl(c, 2) + 2 + 1]>>

Palette24(pal, c) ==
    <<pal[Shl(c, 2) + 2 + 1], pal[Shl(c, 2) + 1 + 1], pal[Shl(c, 2) + 0 + 1]>>

convert8BitTo24Bit(src, dest, w, h, pal, pad, flp, null) ==
    LET lineWidth == 3 * w
        Row[y \in 0..h] ==
            IF y = 0
            THEN [Entry(dest) EXCEPT !.op = IF flp THEN lineWidth * h ELSE 0]
            ELSE LET s == Row[y - 1]
                     o == RowDest(flp, s.op, lineWidth)
                     c(x) == src[s.ip + (x \div 3) + 1]
                     bytes == [i \in 1..lineWidth |->
                                 LET x == 3 * ((i - 1) \div 3)
                                 IN  IF pal # <<>>
                                     THEN Palette24(pal, c(x))[((i - 1) % 3) + 1]
                                     ELSE c(x)]
                 IN  [out |-> Poke(s.out, o, bytes),
                      ip |-> s.ip + w + pad,
                      op |-> RowNext(flp, o, lineWidth),
                      rowStart |-> Append(s.rowStart, s.ip),
                      srcRead |-> s.srcRead \cup Span(s.ip, w),
                      dstWritten |-> s.dstWritten \cup Span(o, lineWidth),
                      palRead |-> IF pal # <<>>
                                  THEN s.palRead \cup
                                       {Shl(src[k + 1], 2) + j : k \in Span(s.ip, w), j \in 0..2}
                                  ELSE s.palRead]
    IN  IF null # "none" THEN Entry(dest) ELSE Row[h]

convert8BitTo32Bit(src, dest, w, h, pal, pad, flp, null) ==
    LET lineWidth == 4 * w
        Row[y \in 0..h] ==
            IF y = 0
            THEN [Entry(dest) EXCEPT !.op = IF flp THEN lineWidth * h ELSE 0]
            ELSE LET s == Row[y - 1]
                     o == RowDest(flp, s.op, lineWidth)
                     bytes == [i \in 1..lineWidth |->
                                 LET x == (i - 1) \div 4
                                     c == src[s.ip + x + 1]
                                 IN  IF pal # <<>>
                                     THEN pal[4 * c + ((i - 1) % 4) + 1]
                                     ELSE <<c, c, c, \HFF>>[((i - 1) % 4) + 1]]
                 IN  [out |-> Poke(s.out, o, bytes),
                      ip |-> s.ip + w + pad,
                      op |-> RowNext(flp, o, lineWidth),
                      rowStart |-> Append(s.rowStart, s.ip),
                      srcRead |-> s.srcRead \cup Span(s.ip, w),
                      dstWritten |-> s.dstWritten \cup Span(o, lineWidth),
                      palRead |-> IF pal # <<>>
                                  THEN s.palRead \cup
                                       {4 * src[k + 1] + j : k \in Span(s.ip, w), j \in 0..3}
                                  ELSE s.palRead]
    IN  IF null # "none" THEN Entry(dest) ELSE Row[h]

\* in and out are s16 pointers: ip and op count 2-byte elements.
convert16BitTo16Bit(src, dest, w, h, pad, flp, null) ==
    LET Row[y \in 0..h] ==
            IF y = 0
            THEN [Entry(dest) EXCEPT !.op = IF flp THEN w * h ELSE 0]
            ELSE LET s == Row[y - 1]
                     o == RowDest(flp, s.op, w)
                     bytes == SubSeq(src, 2 * s.ip + 1, 2 * s.ip + w * 2)
                 IN  [out |-> Poke(s.out, 2 * o, bytes),
                      ip |-> (s.ip + w) + pad,
                      op |-> RowNext(flp, o, w),
                      rowStart |-> Append(s.rowStart, 2 * s.ip),
                      srcRead |-> s.srcRead \cup Span(2 * s.ip, w * 2),
                      dstWritten |-> s.dstWritten \cup Span(2 * o, w * 2),
                      palRead |-> s.palRead]
    IN  IF null # "none" THEN Entry(dest) ELSE Row[h]

convert24BitTo24Bit(src, dest, w, h, pad, flp, swap, null) ==
    LET lineWidth == 3 * w
        Row[y \in 0..h] ==
            IF y = 0
            THEN [Entry(dest) EXCEPT !.op = IF flp THEN lineWidth * h ELSE 0]
            ELSE LET s == Row[y - 1]
                     o == RowDest(flp, s.op, lineWidth)
                     bytes == IF swap
                              THEN [i \in 1..lineWidth |->
                                      LET x == 3 * ((i - 1) \div 3)
                                      IN  src[s.ip + x + (2 - ((i - 1) % 3)) + 1]]
                              ELSE SubSeq(src, s.ip + 1, s.ip + lineWidth)
                 IN  [out |-> Poke(s.out, o, bytes),
                      ip |-> (s.ip + lineWidth) + pad,
                      op |-> RowNext(flp, o, lineWidth),
                      rowStart |-> Append(s.rowStart, s.ip),
                      srcRead |-> s.srcRead \cup Span(s.ip, lineWidth),
                      dstWritten |-> s.dstWritten \cup Span(o, lineWidth),
                      palRead |-> s.palRead]
    IN  IF null # "none" THEN Entry(dest) ELSE Row[h]

\* in and out are s32 pointers: ip and op count 4-byte elements.
convert32BitTo32Bit(src, dest, w, h, pad, flp, null) ==
    LET Row[y \in 0..h] ==
            IF y = 0
            THEN [Entry(dest) EXCEPT !.op = IF flp THEN w * h ELSE 0]
            ELSE LET s == Row[y - 1]
                     o == RowDest(flp, s.op, w)
                     bytes == SubSeq(src, 4 * s.ip + 1, 4 * s.ip + w * 4)
                 IN  [out |-> Poke(s.out, 4 * o, bytes),
                      ip |-> (s.ip + w) + pad,
                      op |-> RowNext(flp, o, w),
                      rowStart |-> Append(s.rowStart, 4 * s.ip),
                      srcRead |-> s.srcRead \cup Span(4 * s.ip, w * 4),
                      dstWritten |-> s.dstWritten \cup Span(4 * o, w * 4),
                      palRead |-> s.palRead]
    IN  IF null # "none" THEN Entry(dest) ELSE Row[h]

(***************************************************************************)
(* IEEE-754 binary32 arithmetic on non-negative values, round to nearest,   *)
(* ties to even: the f32 of the resizing converter.  A value is the record *)
(* [m, e] standing for m * 2^(-e), with m = 0 or 2^23 <= m < 2^24.         *)
(***************************************************************************)
RECURSIVE BitLen(_)
BitLen(n) == IF n = 0 THEN 0 ELSE 1 + BitLen(n \div 2)

\* n * 2^(-e) rounded to a 24-bit significand.
F32Round(n, e) ==
    IF n = 0 THEN [m |-> 0, e |-> 0]
    ELSE IF BitLen(n) <= 24
         THEN [m |-> n * Pow2(24 - BitLen(n)), e |-> e + (24 - BitLen(n))]
         ELSE LET k == BitLen(n) - 24
                  q == n \div Pow2(k)
                  r == n % Pow2(k)
                  half == Pow2(k - 1)
                  up == r > half \/ (r = half /\ q % 2 = 1)
                  q1 == IF up THEN q + 1 ELSE q
              IN  IF q1 = Pow2(24)
                  THEN [m |-> Pow2(23), e |-> e - k - 1]
                  ELSE [m |-> q1, e |-> e - k]

\* (f32)i for an integer 0 <= i < 2^24.
F32FromInt(i) == F32Round(i, 0)

RECURSIVE DivScale(_, _, _)
\* The least s >= from with a * 2^s >= b * 2^25.
DivScale(a, b, from) ==
    IF a * Pow2(from) >= b * Pow2(25) THEN from ELSE DivScale(a, b, from + 1)

\* (f32)a / (f32)b for integers a >= 0, b >= 1: the quotient to 26 bits, the
\* remainder kept as a sticky bit below them.
F32Div(a, b) ==
    IF a = 0 THEN [m |-> 0, e |-> 0]
    ELSE LET s == DivScale(a, b, 0)
             q == (a * Pow2(s)) \div b
             sticky == IF (a * Pow2(s)) % b = 0 THEN 0 ELSE 1
         IN  F32Round(2 * q + sticky, s + 1)

\* (f32)x * f for an integer x >= 0: the product is exact before rounding.
F32MulInt(x, f) == F32Round(x * f.m, f.e)

\* f + g: the smaller operand is aligned to three guard bits below the larger
\* one's last place, what it loses kept as a sticky bit.
F32Add(f, g) ==
    IF f.m = 0 THEN g
    ELSE IF g.m = 0 THEN f
    ELSE LET big == IF f.e <= g.e THEN f ELSE g
             small == IF f.e <= g.e THEN g ELSE f
             d == small.e - big.e
         IN  IF d <= 3
             THEN F32Round(big.m * Pow2(d) + small.m, small.e)
             ELSE LET q == small.m \div Pow2(d - 3)
                      lost == small.m % Pow2(d - 3) # 0
                      n == big.m * 8 + q
                  IN  F32Round(IF lost /\ n % 2 = 0 THEN n + 1 ELSE n, big.e + 3)

\* (s32)f: truncation toward zero.
F32ToS32(f) == IF f.e >= 0 THEN f.m \div Pow2(f.e) ELSE f.m * Pow2(0 - f.e)

(***************************************************************************)
(* Inputs of the pixel-stream calls: a few pixels of each format, chosen   *)
(* to exercise every channel field, its lowest and highest bit.            *)
(***************************************************************************)
Words16 ==
    {\H0000, \H8000, \H7FFF, \H7C00, \H03E0, \H001F, \HF800, \H07E0, \H0020,
     \H8421, \HFFFF}

Pixels(f) ==
    CASE f = "A1R5G5B5" -> {StoreU16(w) : w \in Words16}
      [] f = "R5G6B5" -> {StoreU16(w) : w \in Words16}
      [] f = "Indexed8" -> {<<\H00>>, <<\H01>>, <<\HFF>>}
      [] f = "R8G8B8" ->
            {<<\H00, \H00, \H00>>, <<\HF8, \H00, \H00>>, <<\H00, \HFC, \H00>>,
             <<\H00, \H00, \HF8>>, <<\HFF, \HFF, \HFF>>, <<\H07, \H03, \H07>>,
             <<\H12, \H34, \H56>>, <<\H08, \H04, \H10>>, <<\HF8, \HFC, \HF8>>}
      [] f = "BGR888" ->
            {<<\H00, \H00, \H00>>, <<\HF8, \H00, \H00>>, <<\H12, \H34, \H56>>}
      [] f = "A8R8G8B8" ->
            {<<\H00, \H00, \H00, \H00>>, <<\H00, \H00, \H00, \H80>>,
             <<\H00, \H00, \H00, \H08>>, <<\H00, \H00, \H00, \H7F>>,
             <<\HFF, \HFF, \HFF, \HFF>>, <<\HF8, \H00, \H00, \HFF>>,
             <<\H00, \HFC, \H00, \HF7>>, <<\H07, \H03, \HF8, \H00>>,
             <<\H12, \H34, \H56, \H78>>}

RECURSIVE Concat(_)
Concat(pxs) == IF pxs = <<>> THEN <<>> ELSE Head(pxs) \o Concat(Tail(pxs))

\* Every buffer of n pixels of format f drawn from Pixels(f).
Buffers(f, n) == {Concat(pxs) : pxs \in [1..n -> Pixels(f)]}

\* A destination buffer of n bytes holding the byte b everywhere.
Filled(n, b) == [i \in 1..n |-> b]

\* The variables of a component that a specification does not exercise.
IdleStream ==
    /\ sF = "A1R5G5B5" /\ dF = "A1R5G5B5" /\ sN = 0 /\ sP = <<>>
    /\ dP = <<>> /\ dP0 = <<>> /\ codec = "none" /\ ret = FALSE /\ rP = <<>>

IdleScan ==
    /\ routine = "none" /\ nullPtr = "none" /\ width = 0 /\ height = 0
    /\ linepad = 0 /\ flip = FALSE /\ bgr = FALSE /\ palette = <<>>
    /\ inp = <<>> /\ out = <<>> /\ rowStart = <<>>
    /\ srcRead = {} /\ dstWritten = {} /\ palRead = {}

IdleRef ==
    /\ ReferenceCounter = 0 /\ alive = FALSE /\ grabs = 0 /\ drops = 0
    /\ destroyed = 0 /\ dropRet = FALSE

IdleResize ==
    /\ newWidth = 0 /\ newHeight = 0 /\ currentWidth = 0 /\ currentHeight = 0
    /\ rin = <<>> /\ rout = <<>> /\ sampled = <<>> /\ written = <<>>

InitStream ==
    /\ call = "none"
    /\ sF \in ECOLOR_FORMAT
    /\ dF \in ECOLOR_FORMAT
    /\ sN \in 0..MaxSamples
    /\ sP \in Buffers(sF, sN)
    /\ dP = Filled(sN * BytesPerPixel(dF), \HAA)
    /\ dP0 = dP
    /\ codec = "none"
    /\ ret = FALSE
    /\ rP = <<>>
    /\ IdleScan
    /\ IdleRef
    /\ IdleResize

CanConvertFormat ==
    /\ call = "none"
    /\ call' = "canConvertFormat"
    /\ ret' = canConvertFormat(sF, dF)
    /\ UNCHANGED <<sF, dF, sN, sP, dP, dP0, codec, rP, scanVars, refVars, resizeVars>>

ConvertViaFormat ==
    /\ call = "none"
    /\ call' = "convert_viaFormat"
    /\ LET r == convert_viaFormat(sP, sF, sN, dP, dF)
       IN  /\ codec' = r.codec
           /\ dP' = r.dP
    /\ UNCHANGED <<sF, dF, sN, sP, dP0, ret, rP, scanVars, refVars, resizeVars>>

\* A direct call of the codec on buffers of its two formats.
Convert_A1R5G5B5toR8G8B8 ==
    /\ call = "none"
    /\ sF = "A1R5G5B5"
    /\ dF = "R8G8B8"
    /\ call' = "convert_A1R5G5B5toR8G8B8"
    /\ codec' = "convert_A1R5G5B5toR8G8B8"
    /\ dP' = convert_A1R5G5B5toR8G8B8(sP, sN, dP)
    /\ UNCHANGED <<sF, dF, sN, sP, dP0, ret, rP, scanVars, refVars, resizeVars>>

\* A direct call: the source holds A8R8G8B8 pixels, the destination 16-bit pixels.
Convert_A8R8G8B8toA1B5G5R5 ==
    /\ call = "none"
    /\ sF = "A8R8G8B8"
    /\ BytesPerPixel(dF) = 2
    /\ call' = "convert_A8R8G8B8toA1B5G5R5"
    /\ codec' = "convert_A8R8G8B8toA1B5G5R5"
    /\ dP' = convert_A8R8G8B8toA1B5G5R5(sP, sN, dP)
    /\ UNCHANGED <<sF, dF, sN, sP, dP0, ret, rP, scanVars, refVars, resizeVars>>

Convert_R8G8B8toR5G6B5 ==
    /\ call = "none"
    /\ sF = "R8G8B8"
    /\ dF = "R5G6B5"
    /\ call' = "convert_R8G8B8toR5G6B5"
    /\ codec' = "convert_R8G8B8toR5G6B5"
    /\ dP' = convert_R8G8B8toR5G6B5(sP, sN, dP)
    /\ UNCHANGED <<sF, dF, sN, sP, dP0, ret, rP, scanVars, refVars, resizeVars>>

Convert_R5G6B5toR8G8B8 ==
    /\ call = "none"
    /\ sF = "R5G6B5"
    /\ dF = "R8G8B8"
    /\ call' = "convert_R5G6B5toR8G8B8"
    /\ codec' = "convert_R5G6B5toR8G8B8"
    /\ dP' = convert_R5G6B5toR8G8B8(sP, sN, dP)
    /\ UNCHANGED <<sF, dF, sN, sP, dP0, ret, rP, scanVars, refVars, resizeVars>>

\* The second call of a round trip: the first call's destination is the
\* source, a fresh buffer of sN pixels the destination.
Back_R5G6B5toR8G8B8 ==
    /\ call = "convert_R8G8B8toR5G6B5"
    /\ call' = "convert_R8G8B8toR5G6B5, convert_R5G6B5toR8G8B8"
    /\ codec' = "convert_R5G6B5toR8G8B8"
    /\ rP' = convert_R5G6B5toR8G8B8(dP, sN, Filled(sN * 3, \HAA))
    /\ UNCHANGED <<sF, dF, sN, sP, dP, dP0, ret, scanVars, refVars, resizeVars>>

Back_R8G8B8toR5G6B5 ==
    /\ call = "convert_R5G6B5toR8G8B8"
    /\ call' = "convert_R5G6B5toR8G8B8, convert_R8G8B8toR5G6B5"
    /\ codec' = "convert_R8G8B8toR5G6B5"
    /\ rP' = convert_R8G8B8toR5G6B5(dP, sN, Filled(sN * 2, \HAA))
    /\ UNCHANGED <<sF, dF, sN, sP, dP, dP0, ret, scanVars, refVars, resizeVars>>

NextStream ==
    \/ CanConvertFormat
    \/ ConvertViaFormat
    \/ Convert_A1R5G5B5toR8G8B8
    \/ Convert_A8R8G8B8toA1B5G5R5
    \/ Convert_R8G8B8toR5G6B5
    \/ Convert_R5G6B5toR8G8B8
    \/ Back_R5G6B5toR8G8B8
    \/ Back_R8G8B8toR5G6B5

Init == InitStream

Next == NextStream

Spec == Init /\ [][Next]_vars

(***************************************************************************)
(* Calls of the scanline routines.                                         *)
(***************************************************************************)
Routines ==
    {"convert8BitTo24Bit", "convert8BitTo32Bit", "convert16BitTo16Bit",
     "convert24BitTo24Bit", "convert32BitTo32Bit"}

\* Bytes per source pixel, bytes per destination pixel, and the size of the
\* element the routine's `in` pointer points to.
SrcBpp(r) ==
    CASE r = "convert8BitTo24Bit" -> 1
      [] r = "convert8BitTo32Bit" -> 1
      [] r = "convert16BitTo16Bit" -> 2
      [] r = "convert24BitTo24Bit" -> 3
      [] r = "convert32BitTo32Bit" -> 4

DstBpp(r) ==
    CASE r = "convert8BitTo24Bit" -> 3
      [] r = "convert8BitTo32Bit" -> 4
      [] r = "convert16BitTo16Bit" -> 2
      [] r = "convert24BitTo24Bit" -> 3
      [] r = "convert32BitTo32Bit" -> 4

InElemSize(r) ==
    CASE r = "convert8BitTo24Bit" -> 1
      [] r = "convert8BitTo32Bit" -> 1
      [] r = "convert16BitTo16Bit" -> 2
      [] r = "convert24BitTo24Bit" -> 1
      [] r = "convert32BitTo32Bit" -> 4

\* A palette whose 1024 bytes tell its entries and their components apart.
Palette256 == [k \in 1..1024 |-> ((k - 1) * 5 + 1) % 256]

\* n bytes of memory, all different, the first one being base.
Ramp(n, base) == [k \in 1..n |-> (base + k - 1) % 256]

InitScan ==
    /\ call = "none"
    /\ routine \in Routines
    /\ nullPtr \in {"none", "in", "out"}
    /\ width \in 0..MaxWidth
    /\ height \in 0..MaxHeight
    /\ linepad \in 0..MaxLinepad
    /\ flip \in BOOLEAN
    /\ bgr \in (IF routine = "convert24BitTo24Bit" THEN BOOLEAN ELSE {FALSE})
    /\ palette \in (IF SrcBpp(routine) = 1 THEN {<<>>, Palette256} ELSE {<<>>})
    /\ \E base \in {1, 250} :
          inp = Ramp(height * (width * SrcBpp(routine) + linepad * InElemSize(routine)),
                     base)
    /\ out = Filled(height * width * DstBpp(routine), \HAA)
    /\ rowStart = <<>>
    /\ srcRead = {}
    /\ dstWritten = {}
    /\ palRead = {}
    /\ IdleStream
    /\ IdleRef
    /\ IdleResize

\* The routine has run and left r.
Ran_scan(r) ==
    /\ call' = routine
    /\ out' = r.out
    /\ rowStart' = r.rowStart
    /\ srcRead' = r.srcRead
    /\ dstWritten' = r.dstWritten
    /\ palRead' = r.palRead
    /\ UNCHANGED <<routine, nullPtr, width, height, linepad, flip, bgr, palette, inp,
                   streamVars, refVars, resizeVars>>

Convert8BitTo24Bit ==
    /\ call = "none"
    /\ routine = "convert8BitTo24Bit"
    /\ Ran_scan(convert8BitTo24Bit(inp, out, width, height, palette, linepad, flip, nullPtr))

Convert8BitTo32Bit ==
    /\ call = "none"
    /\ routine = "convert8BitTo32Bit"
    /\ Ran_scan(convert8BitTo32Bit(inp, out, width, height, palette, linepad, flip, nullPtr))

Convert16BitTo16Bit ==
    /\ call = "none"
    /\ routine = "convert16BitTo16Bit"
    /\ Ran_scan(convert16BitTo16Bit(inp, out, width, height, linepad, flip, nullPtr))

Convert24BitTo24Bit ==
    /\ call = "none"
    /\ routine = "convert24BitTo24Bit"
    /\ Ran_scan(convert24BitTo24Bit(inp, out, width, height, linepad, flip, bgr, nullPtr))

Convert32BitTo32Bit ==
    /\ call = "none"
    /\ routine = "convert32BitTo32Bit"
    /\ Ran_scan(convert32BitTo32Bit(inp, out, width, height, linepad, flip, nullPtr))

NextScan ==
    \/ Convert8BitTo24Bit
    \/ Convert8BitTo32Bit
    \/ Convert16BitTo16Bit
    \/ Convert24BitTo24Bit
    \/ Convert32BitTo32Bit

SpecScan == InitScan /\ [][NextScan]_vars

(***************************************************************************)
(* Properties of the format catalogue, the dispatcher and the codecs.      *)
(***************************************************************************)
\* C1: canConvertFormat returns true if and only if both the source and the
\* destination format are among A1R5G5B5, R5G6B5, A8R8G8B8 and R8G8B8.
C1_CanConvertExactly ==
    call = "canConvertFormat" =>
        (ret <=> /\ sF \in {"A1R5G5B5", "R5G6B5", "A8R8G8B8", "R8G8B8"}
                 /\ dF \in {"A1R5G5B5", "R5G6B5", "A8R8G8B8", "R8G8B8"})

C1_Witness ==
    /\ call = "canConvertFormat"
    /\ sF = "R5G6B5"
    /\ dF = "R8G8B8"
    /\ ret

\* C2: convert_viaFormat runs the pixel-stream codec named after exactly the
\* ordered pair (sF, dF) when canConvertFormat holds of the pair (a same-format
\* pair leaves a copy of the source), and otherwise runs no codec and leaves the
\* destination buffer as it was.
C2_DispatchOrNoOp ==
    call = "convert_viaFormat" =>
        IF canConvertFormat(sF, dF)
        THEN /\ codec = "convert_" \o sF \o "to" \o dF
             /\ Len(dP) = Len(dP0)
             /\ sF = dF => dP = sP
        ELSE /\ codec = "none"
             /\ dP = dP0

C2_Witness ==
    /\ call = "convert_viaFormat"
    /\ sF = "A8R8G8B8"
    /\ dF = "R5G6B5"
    /\ sN = 1
    /\ codec = "convert_A8R8G8B8toR5G6B5"
    /\ dP # dP0

\* C3: convert_A1R5G5B5toR8G8B8 writes, for every source pixel, byte0 = R << 3,
\* byte1 = G << 3, byte2 = B << 3 (R = bits 14-10, G = bits 9-5, B = bits 4-0),
\* whatever the alpha bit.
C3_RedFirst ==
    call = "convert_A1R5G5B5toR8G8B8" =>
        \A x \in 0..(sN - 1) :
            LET w == LoadU16(SrcPixel(sP, x, 2))
                R == (w \div 1024) % 32
                G == (w \div 32) % 32
                B == w % 32
            IN  /\ dP[3 * x + 1] = R * 8
                /\ dP[3 * x + 2] = G * 8
                /\ dP[3 * x + 3] = B * 8

\* C10: convert_A8R8G8B8toA1B5G5R5 keeps the top 5 bits of each colour channel
\* and sets the destination alpha (bit 15) to the top bit (bit 7) of the source
\* alpha byte.
C10_AlphaTopBit ==
    call = "convert_A8R8G8B8toA1B5G5R5" =>
        \A x \in 0..(sN - 1) :
            LET s == SrcPixel(sP, x, 4)
                d == LoadU16(SubSeq(dP, 2 * x + 1, 2 * x + 2))
            IN  /\ (d \div 1024) % 32 = s[1] \div 8
                /\ (d \div 32) % 32 = s[2] \div 8
                /\ d % 32 = s[3] \div 8
                /\ d \div 32768 = s[4] \div 128

\* C11: an R8G8B8 pixel whose R and B bytes have their low 3 bits zero and
\* whose G byte has its low 2 bits zero comes back unchanged, bytes in order,
\* from convert_R8G8B8toR5G6B5 followed by convert_R5G6B5toR8G8B8; every
\* R5G6B5 pixel comes back unchanged from convert_R5G6B5toR8G8B8 followed by
\* convert_R8G8B8toR5G6B5.
C11_RoundTrip ==
    /\ call = "convert_R8G8B8toR5G6B5, convert_R5G6B5toR8G8B8" =>
          /\ Len(rP) = Len(sP)
          /\ \A x \in 0..(sN - 1) :
                LET p == SrcPixel(sP, x, 3)
                IN  (p[1] % 8 = 0 /\ p[2] % 4 = 0 /\ p[3] % 8 = 0) =>
                        SrcPixel(rP, x, 3) = p
    /\ call = "convert_R5G6B5toR8G8B8, convert_R8G8B8toR5G6B5" => rP = sP

C11_Witness ==
    /\ call = "convert_R8G8B8toR5G6B5, convert_R5G6B5toR8G8B8"
    /\ sN = 2
    /\ sP = <<\H08, \H04, \H10, \HF8, \HFC, \HF8>>
    /\ dP = <<\H22, \H08, \HFF, \HFF>>
    /\ rP = sP

(***************************************************************************)
(* Properties of the scanline routines.                                    *)
(***************************************************************************)
\* A scanline routine has run on non-null buffers.
ScanDone == call \in Routines /\ nullPtr = "none"

\* Source pixel x of the y-th row the routine walks: rows lie width pixels plus
\* linepad elements of the `in` pointer apart.
WalkedPixel(y, x) ==
    LET stride == width * SrcBpp(routine) + linepad * InElemSize(routine)
        at == y * stride + x * SrcBpp(routine)
    IN  SubSeq(inp, at + 1, at + SrcBpp(routine))

\* Destination pixel x of destination row dy.
DestPixel(dy, x) ==
    LET at == (dy * width + x) * DstBpp(routine)
    IN  SubSeq(out, at + 1, at + DstBpp(routine))

\* The destination pixel a routine makes of one source pixel p.
Converted(p) ==
    CASE routine = "convert8BitTo24Bit" ->
            IF palette = <<>> THEN <<p[1], p[1], p[1]>>
            ELSE <<palette[4 * p[1] + 3], palette[4 * p[1] + 2], palette[4 * p[1] + 1]>>
      [] routine = "convert8BitTo32Bit" ->
            IF palette = <<>> THEN <<p[1], p[1], p[1], 255>>
            ELSE SubSeq(palette, 4 * p[1] + 1, 4 * p[1] + 4)
      [] routine = "convert24BitTo24Bit" ->
            IF bgr THEN <<p[3], p[2], p[1]>> ELSE p
      [] OTHER -> p

\* C4: with non-null buffers and width, height >= 1, every scanline routine
\* writes source row y to destination row y when flip is false and to row
\* height-1-y when flip is true, pixel x of the row to pixel x, and writes
\* exactly the bytes of the height * rowStride destination bytes.
C4_RowPlacement ==
    (ScanDone /\ width >= 1 /\ height >= 1) =>
        /\ \A y \in 0..(height - 1) : \A x \in 0..(width - 1) :
              DestPixel(IF flip THEN height - 1 - y ELSE y, x) = Converted(WalkedPixel(y, x))
        /\ dstWritten = 0..(height * width * DstBpp(routine) - 1)

C4_Witness ==
    /\ ScanDone
    /\ routine = "convert16BitTo16Bit"
    /\ flip
    /\ width = 2
    /\ height = 2
    /\ linepad = 1
    /\ DestPixel(1, 0) = WalkedPixel(0, 0)
    /\ DestPixel(0, 1) = WalkedPixel(1, 1)

\* C5: in every scanline routine linepad counts bytes: source row y is read
\* from byte offset y * (width * bytesPerPixel + linepad) on, and no padding
\* byte is read.
C5_LinepadInBytes ==
    ScanDone =>
        LET rowBytes == width * SrcBpp(routine)
        IN  /\ Len(rowStart) = height
            /\ \A y \in 0..(height - 1) : rowStart[y + 1] = y * (rowBytes + linepad)
            /\ srcRead = UNION {Span(y * (rowBytes + linepad), rowBytes) :
                                  y \in 0..(height - 1)}

\* C8: convert8BitTo24Bit with a palette stores, for source byte i, the bytes
\* (palette[4i+2], palette[4i+1], palette[4i+0]) and reads no palette byte
\* but these; with a null palette it stores the source byte three times.
C8_PaletteLookup ==
    (ScanDone /\ routine = "convert8BitTo24Bit") =>
        /\ \A y \in 0..(height - 1) : \A x \in 0..(width - 1) :
              LET i == inp[y * (width + linepad) + x + 1]
                  d == DestPixel(IF flip THEN height - 1 - y ELSE y, x)
              IN  IF palette # <<>>
                  THEN d = <<palette[4 * i + 2 + 1], palette[4 * i + 1 + 1],
                             palette[4 * i + 0 + 1]>>
                  ELSE d = <<i, i, i>>
        /\ palRead =
              IF palette # <<>>
              THEN {4 * inp[y * (width + linepad) + x + 1] + j :
                       y \in 0..(height - 1), x \in 0..(width - 1), j \in 0..2}
              ELSE {}

C8_Witness ==
    /\ ScanDone
    /\ routine = "convert8BitTo24Bit"
    /\ palette # <<>>
    /\ width = 2
    /\ height = 2
    /\ inp[1] = 250
    /\ palRead # {}
    /\ SubSeq(out, 1, 3) # <<170, 170, 170>>

(***************************************************************************)
(* IReferenceCounted: the counter, grab() and drop().                      *)
(***************************************************************************)
\* drop(): the counter after "--ReferenceCounter", whether "delete this" ran,
\* and the return value.
drop_deleteAtOne(rc) ==
    LET n == rc - 1
    IN  IF n <= 1
        THEN [ReferenceCounter |-> n, deleted |-> TRUE, ret |-> TRUE]
        ELSE [ReferenceCounter |-> n, deleted |-> FALSE, ret |-> FALSE]

drop(rc) ==
    LET n == rc - 1
    IN  IF n = 0
        THEN [ReferenceCounter |-> n, deleted |-> TRUE, ret |-> TRUE]
        ELSE [ReferenceCounter |-> n, deleted |-> FALSE, ret |-> FALSE]

\* The constructor sets the counter to 1.
InitRef ==
    /\ call = "none"
    /\ ReferenceCounter = 1
    /\ alive = TRUE
    /\ grabs = 0
    /\ drops = 0
    /\ destroyed = 0
    /\ dropRet = FALSE
    /\ IdleStream
    /\ IdleScan
    /\ IdleResize

Grab ==
    /\ alive
    /\ grabs < MaxGrabs
    /\ call' = "grab"
    /\ ReferenceCounter' = ReferenceCounter + 1
    /\ grabs' = grabs + 1
    /\ UNCHANGED <<alive, drops, destroyed, dropRet, streamVars, scanVars, resizeVars>>

\* Calls on a deleted object are not modelled; the assertion guards the rest.
Drop ==
    /\ alive
    /\ ReferenceCounter > 0
    /\ call' = "drop"
    /\ LET r == drop(ReferenceCounter)
       IN  /\ ReferenceCounter' = r.ReferenceCounter
           /\ alive' = ~r.deleted
           /\ destroyed' = IF r.deleted THEN destroyed + 1 ELSE destroyed
           /\ dropRet' = r.ret
    /\ drops' = drops + 1
    /\ UNCHANGED <<grabs, streamVars, scanVars, resizeVars>>

NextRef ==
    \/ Grab
    \/ Drop

SpecRef == InitRef /\ [][NextRef]_vars

\* C9: while the object is alive its count is 1 + grabs - drops and positive;
\* a drop() returns true exactly when it brings the count to zero and deletes
\* the object, and false when it leaves it alive; the object is deleted exactly
\* once, by the drop that makes the drops exceed the grabs.
C9_CountAndSingleDelete ==
    /\ alive => /\ ReferenceCounter = 1 + grabs - drops
                /\ ReferenceCounter > 0
    /\ call = "drop" => /\ dropRet <=> ReferenceCounter = 0
                        /\ dropRet <=> ~alive
    /\ alive <=> drops <= grabs
    /\ destroyed = IF drops > grabs THEN 1 ELSE 0
    /\ ~alive => drops = grabs + 1

C9_Witness ==
    /\ ~alive
    /\ grabs = 2
    /\ drops = 3
    /\ dropRet
    /\ destroyed = 1

(***************************************************************************)
(* convert16bitToA8R8G8B8andResize.                                        *)
(***************************************************************************)
\* The s32 the routine makes of the 16-bit pixel t, as its four bytes in
\* memory: bits 7-0, 15-8, 23-16 and 31-24.
Expand1555(t) ==
    LET low == Or(Or(Shl(And(Shr(t, 10), \H1F), 19), Shl(And(Shr(t, 5), \H1F), 11)),
                  Shl(And(t, \H1F), 3))
        high == Shl(And(Shr(t, 15), \H1), 31 - 24)
    IN  <<low % 256, (low \div 256) % 256, low \div 65536, high>>

\* sy when row y is sampled: 0.0f, then "sy += sourceYStep" once per row.
RECURSIVE SyAt(_, _)
SyAt(y, sourceYStep) ==
    IF y = 0 THEN F32FromInt(0) ELSE F32Add(SyAt(y - 1, sourceYStep), sourceYStep)

\* (s32)(((s32)sy) * currentWidth + x * sourceXStep)
SourceIndex(sy, x, sourceXStep, cw) ==
    F32ToS32(F32Add(F32FromInt(F32ToS32(sy) * cw), F32MulInt(x, sourceXStep)))

\* The result: the destination image, and per destination index the source
\* index read and the number of writes.  Step k of the two nested loops is
\* x = k \div newHeight (outer), y = k % newHeight (inner).
convert16bitToA8R8G8B8andResize(src, dest, nw, nh, cw, ch) ==
    LET entry == [out |-> dest,
                  sampled |-> [d \in 1..Len(dest) |-> 0 - 1],
                  written |-> [d \in 1..Len(dest) |-> 0]]
        sourceXStep == F32Div(cw, nw)
        sourceYStep == F32Div(ch, nh)
        Step[k \in 0..(nw * nh)] ==
            IF k = 0 THEN entry
            ELSE LET s == Step[k - 1]
                     x == (k - 1) \div nh
                     y == (k - 1) % nh
                     at == SourceIndex(SyAt(y, sourceYStep), x, sourceXStep, cw)
                     d == y * nw + x
                 IN  [out |-> [s.out EXCEPT ![d + 1] = Expand1555(src[at + 1])],
                      sampled |-> [s.sampled EXCEPT ![d + 1] = at],
                      written |-> [s.written EXCEPT ![d + 1] = @ + 1]]
    IN  IF nw = 0 \/ nh = 0 THEN entry ELSE Step[nw * nh]

\* n 16-bit pixels that differ in every field; every other one has its alpha set.
TestImage(n, p) == [k \in 1..n |-> (k * 4229 + (k + p) * 32768) % 65536]

InitResize ==
    /\ call = "none"
    /\ newWidth \in 0..MaxNewWidth
    /\ newHeight \in 0..MaxNewHeight
    /\ currentWidth \in 1..MaxCurrentWidth
    /\ currentHeight \in 1..MaxCurrentHeight
    /\ \E p \in 0..1 : rin = TestImage(currentWidth * currentHeight, p)
    /\ rout = [d \in 1..(newWidth * newHeight) |-> <<\HAA, \HAA, \HAA, \HAA>>]
    /\ sampled = [d \in 1..(newWidth * newHeight) |-> 0 - 1]
    /\ written = [d \in 1..(newWidth * newHeight) |-> 0]
    /\ IdleStream
    /\ IdleScan
    /\ IdleRef

Convert16bitToA8R8G8B8andResize ==
    /\ call = "none"
    /\ call' = "convert16bitToA8R8G8B8andResize"
    /\ LET r == convert16bitToA8R8G8B8andResize(rin, rout, newWidth, newHeight,
                                                currentWidth, currentHeight)
       IN  /\ rout' = r.out
           /\ sampled' = r.sampled
           /\ written' = r.written
    /\ UNCHANGED <<newWidth, newHeight, currentWidth, currentHeight, rin,
                   streamVars, scanVars, refVars>>

NextResize ==
    \/ Convert16bitToA8R8G8B8andResize

SpecResize == InitResize /\ [][NextResize]_vars

ResizeDone == call = "convert16bitToA8R8G8B8andResize"

\* C6: every destination pixel (x, y) is written exactly once, at index
\* y * newWidth + x, from the source pixel at row floor(y * oldHeight /
\* newHeight) and column floor(x * oldWidth / newWidth); with newWidth or
\* newHeight 0 nothing is written.
C6_NearestByFloor ==
    ResizeDone =>
        /\ \A x \in 0..(newWidth - 1) : \A y \in 0..(newHeight - 1) :
              /\ written[y * newWidth + x + 1] = 1
              /\ sampled[y * newWidth + x + 1] =
                    ((y * currentHeight) \div newHeight) * currentWidth
                    + ((x * currentWidth) \div newWidth)
        /\ (newWidth = 0 \/ newHeight = 0) => \A d \in DOMAIN written : written[d] = 0

\* C7: the value written for a sampled source pixel has R << 3 in bits 23-16,
\* G << 3 in bits 15-8, B << 3 in bits 7-0, and the alpha byte (bits 31-24)
\* 0xFF when the source alpha bit is set and 0x00 when it is clear.
C7_AlphaExpanded ==
    ResizeDone =>
        \A d \in DOMAIN rout :
            written[d] > 0 =>
                LET t == rin[sampled[d] + 1]
                IN  /\ rout[d][3] = ((t \div 1024) % 32) * 8
                    /\ rout[d][2] = ((t \div 32) % 32) * 8
                    /\ rout[d][1] = (t % 32) * 8
                    /\ rout[d][4] = IF t >= 32768 THEN 255 ELSE 0

====
